---- MODULE Spec2Model ----
(***************************************************************************)
(* A model of harbourmaster: the catalog source adapter (PortMasterV1),    *)
(* its staleness-driven refresh, the registry and install command          *)
(* (src/harbourmaster.py), and the port-metadata normaliser                *)
(* port_info_load / port_info_merge (src/pylibs/harbourmaster/info.py).    *)
(*                                                                         *)
(* Python strings are sequences of one-character strings, so that lower(), *)
(* startswith(), replace(), split() and the catalog regex are computed and *)
(* not assumed.  None is the empty tuple <<>> where the other values of    *)
(* the field are records or non-empty tuples, and the string "None" where  *)
(* they are strings.                                                       *)
(***************************************************************************)
EXTENDS Integers, Sequences, FiniteSets, TLC

VARIABLES
    now,        \* wall clock, in seconds (datetime.datetime.now())
    ticks,      \* how many times the clock has advanced
    disk,       \* the persisted source document (NNN_x.source.json)
    remote,     \* what the provider answers at this moment
    source,     \* the PortMasterV1 object of the running process
    calls,      \* what the last handler did: update() calls, HTTP requests
    raw,        \* the record a caller hands to port_info_load
    loaded,     \* what the last port_info_load call was given and returned
    base,       \* the PortInfo that port_info_merge updates in place
    other,      \* the PortInfo it is merged with
    mlast,      \* the last port_info_merge call: the base and other it was given
    cfgdir,     \* the *.source.json files of the config directory
    net,        \* what each source's host answers to a download
    sources,    \* HarbourMaster.sources, in dict order
    tmp,        \* the files of the temporary directory
    ilog,       \* what the last command of the install process did
    mdline,     \* a line of the text catalog (ports.md)
    made,       \* where the line came from: its tokens, or the record portmd had
    parsed      \* what _parse_port_info returned for the line (None before)

srcVars == <<now, ticks, disk, remote, source, calls>>

loadVars == <<raw, loaded>>

mergeVars == <<base, other, mlast>>

installVars == <<cfgdir, net, sources, tmp, ilog>>

parseVars == <<mdline, made, parsed>>

vars == <<srcVars, loadVars, mergeVars, installVars, parseVars>>

\* the variables the refresh protocol leaves alone
notSource == <<loadVars, mergeVars, installVars, parseVars>>

\* the variables port_info_load leaves alone
notLoad == <<srcVars, mergeVars, installVars, parseVars>>

\* the variables port_info_merge leaves alone
notMerge == <<srcVars, loadVars, installVars, parseVars>>

\* the variables the install command leaves alone
notInstall == <<srcVars, loadVars, mergeVars, parseVars>>

\* the variables the text catalog parser and portmd leave alone
notParse == <<srcVars, loadVars, mergeVars, installVars>>

(***************************************************************************)
(* Strings                                                                 *)
(***************************************************************************)
UpperAlphabet ==
    <<"A","B","C","D","E","F","G","H","I","J","K","L","M",
      "N","O","P","Q","R","S","T","U","V","W","X","Y","Z">>

LowerAlphabet ==
    <<"a","b","c","d","e","f","g","h","i","j","k","l","m",
      "n","o","p","q","r","s","t","u","v","w","x","y","z">>

Digits == {"0","1","2","3","4","5","6","7","8","9"}

LowerChar(c) ==
    IF \E i \in 1..26 : UpperAlphabet[i] = c
    THEN LowerAlphabet[CHOOSE i \in 1..26 : UpperAlphabet[i] = c]
    ELSE c

\* str.lower()
Lower(s) == [i \in 1..Len(s) |-> LowerChar(s[i])]

\* str.startswith(prefix)
StartsWith(s, prefix) ==
    /\ Len(prefix) <= Len(s)
    /\ SubSeq(s, 1, Len(prefix)) = prefix

\* str.endswith(suffix)
EndsWith(s, suffix) ==
    /\ Len(suffix) <= Len(s)
    /\ SubSeq(s, Len(s) - Len(suffix) + 1, Len(s)) = suffix

\* whether sub occurs in s at position i
OccursAt(s, sub, i) ==
    /\ i >= 1
    /\ i + Len(sub) - 1 <= Len(s)
    /\ SubSeq(s, i, i + Len(sub) - 1) = sub

\* sub in s
Contains(s, sub) == \E i \in 1..(Len(s) + 1) : OccursAt(s, sub, i)

\* str.replace(old, new), old non-empty: leftmost non-overlapping occurrences
RECURSIVE ReplaceFrom(_, _, _, _)
ReplaceFrom(s, old, new, i) ==
    IF i > Len(s) THEN <<>>
    ELSE IF OccursAt(s, old, i)
         THEN new \o ReplaceFrom(s, old, new, i + Len(old))
         ELSE <<s[i]>> \o ReplaceFrom(s, old, new, i + 1)

Replace(s, old, new) == ReplaceFrom(s, old, new, 1)

\* str.split(sep) for a one-character sep: the pieces, empty ones included
RECURSIVE SplitFrom(_, _, _, _)
SplitFrom(s, sep, i, piece) ==
    IF i > Len(s) THEN <<piece>>
    ELSE IF s[i] = sep
         THEN <<piece>> \o SplitFrom(s, sep, i + 1, <<>>)
         ELSE SplitFrom(s, sep, i + 1, Append(piece, s[i]))

Split(s, sep) == SplitFrom(s, sep, 1, <<>>)

\* str.rsplit(sep, 1)[-1]: what follows the last sep, or all of s
RSplitLast(s, sep) ==
    LET hits == {i \in 1..Len(s) : s[i] = sep}
    IN  IF hits = {} THEN s
        ELSE LET last == CHOOSE i \in hits : \A j \in hits : j <= i
             IN  SubSeq(s, last + 1, Len(s))

WhiteSpace == {" ", "\t", "\n", "\r"}

\* str.strip()
RECURSIVE LStrip(_)
LStrip(s) ==
    IF s # <<>> /\ Head(s) \in WhiteSpace THEN LStrip(Tail(s)) ELSE s

RECURSIVE RStrip(_)
RStrip(s) ==
    IF s # <<>> /\ s[Len(s)] \in WhiteSpace
    THEN RStrip(SubSeq(s, 1, Len(s) - 1)) ELSE s

Strip(s) == RStrip(LStrip(s))

\* the element of a one-element set; Only({e(x) : x \in {v}}) is e(v) with v
\* evaluated once
Only(S) == CHOOSE x \in S : TRUE

\* a Python dict as a function; d[k] = v
DictSet(d, k, v) ==
    Only({[x \in (DOMAIN dd) \cup {k} |-> IF x = k THEN vv ELSE dd[x]] :
             dd \in {d}, vv \in {v}})

\* dict.get(k, default)
DictGet(d, k, default) == IF k \in DOMAIN d THEN d[k] ELSE default

EmptyDict == <<>>

(***************************************************************************)
(* Text catalog records: PortMasterV1._parse_port_info                     *)
(***************************************************************************)
kTitle   == <<"t","i","t","l","e">>
kTitleF  == <<"t","i","t","l","e","_","f">>
kTitleP  == <<"t","i","t","l","e","_","p">>
kLocat   == <<"l","o","c","a","t">>
kDesc    == <<"d","e","s","c">>
kFile    == <<"f","i","l","e">>
kPorter  == <<"p","o","r","t","e","r">>
kOpengl  == <<"o","p","e","n","g","l">>
kPower   == <<"p","o","w","e","r">>
kRtr     == <<"r","t","r">>
kGenres  == <<"g","e","n","r","e","s">>
kRuntype == <<"r","u","n","t","y","p","e">>

\* \w of the regex
IsWordChar(c) ==
    \/ \E i \in 1..26 : UpperAlphabet[i] = c \/ LowerAlphabet[i] = c
    \/ c \in Digits
    \/ c = "_"

\* the last position of the longest run of word characters starting at k
\* (k - 1 when s[k] is none)
RECURSIVE WordRunEnd(_, _)
WordRunEnd(s, k) ==
    IF k <= Len(s) /\ IsWordChar(s[k]) THEN WordRunEnd(s, k + 1) ELSE k - 1

RECURSIVE SpaceRunEnd(_, _)
SpaceRunEnd(s, k) ==
    IF k <= Len(s) /\ s[k] \in WhiteSpace THEN SpaceRunEnd(s, k + 1) ELSE k - 1

\* (?=\s+\w+=|$) at position j
LookAhead(s, j) ==
    \/ j = Len(s) + 1
    \/ j = Len(s) /\ s[j] = "\n"
    \/ LET m == SpaceRunEnd(s, j)
           w == WordRunEnd(s, m + 1)
       IN  /\ m >= j
           /\ w >= m + 1
           /\ w + 1 <= Len(s)
           /\ s[w + 1] = "="

\* (\w+)="(.+?)"(?=...) with the key starting at k: <<>> when it does not
\* match, else the groups and the position after the closing quote
MatchFromKey(s, k) ==
    LET e == WordRunEnd(s, k)
        p == e + 3
        ends == {q \in p..Len(s) :
                    /\ \A x \in p..q : s[x] # "\n"
                    /\ q + 1 <= Len(s)
                    /\ s[q + 1] = "\""
                    /\ LookAhead(s, q + 2)}
    IN  IF /\ e >= k
           /\ e + 2 <= Len(s)
           /\ s[e + 1] = "="
           /\ s[e + 2] = "\""
           /\ ends # {}
        THEN LET q == CHOOSE x \in ends : \A y \in ends : x <= y
             IN  [key |-> SubSeq(s, k, e), value |-> SubSeq(s, p, q),
                  end |-> q + 2]
        ELSE <<>>

\* the regex tried at position i: (?:^|\s) first
MatchAt(s, i) ==
    IF i = 1 /\ MatchFromKey(s, 1) # <<>> THEN MatchFromKey(s, 1)
    ELSE IF i <= Len(s) /\ s[i] \in WhiteSpace THEN MatchFromKey(s, i + 1)
    ELSE <<>>

\* re.findall(r'(?:^|\s)(\w+)=\"(.+?)"(?=\s+\w+=|$)', s): the (key, value) pairs
RECURSIVE FindAllFrom(_, _)
FindAllFrom(s, i) ==
    IF i > Len(s) THEN <<>>
    ELSE LET m == MatchAt(s, i)
         IN  IF m = <<>> THEN FindAllFrom(s, i + 1)
             ELSE <<[key |-> m.key, value |-> m.value]>> \o FindAllFrom(s, m.end)

FindAll(s) == FindAllFrom(s, 1)

\* the keys dict of _parse_port_info
KeyAlias(key) ==
    IF key \in {kTitleF, kTitleP} THEN kTitle
    ELSE IF key = kLocat THEN kFile
    ELSE key

InfoDefaults ==
    (kTitle :> <<>>) @@ (kDesc :> <<>>) @@ (kFile :> <<>>) @@ (kPorter :> <<>>)
    @@ (kOpengl :> FALSE) @@ (kPower :> FALSE) @@ (kRtr :> FALSE)
    @@ (kGenres :> <<>>)

\* one turn of the for loop over the regex's matches
ParseToken(info, tok) ==
    LET lkey   == Lower(tok.key)
        info1  == IF lkey = kTitleF THEN DictSet(info, kOpengl, TRUE) ELSE info
        info2  == IF lkey = kTitleP THEN DictSet(info1, kPower, TRUE) ELSE info1
        key    == KeyAlias(lkey)
        v1     == IF key = kTitle
                  THEN Replace(SubSeq(tok.value, 1, Len(tok.value) - 2),
                               <<"_">>, <<" ">>)
                  ELSE tok.value
        v2     == IF Contains(v1, <<"%","2","0">>)
                  THEN Replace(Replace(v1, <<"%","2","0">>, <<".">>),
                               <<".",".">>, <<".">>)
                  ELSE v1
    IN  IF key = kRuntype THEN DictSet(info2, kRtr, TRUE)
        ELSE IF key = kGenres THEN DictSet(info2, kGenres, Split(v2, ","))
        ELSE DictSet(info2, key, v2)

RECURSIVE ParseTokens(_, _)
ParseTokens(info, toks) ==
    IF toks = <<>> THEN info
    ELSE ParseTokens(ParseToken(info, Head(toks)), Tail(toks))

\* PortMasterV1._parse_port_info(text)
ParsePortInfo(text) == ParseTokens(InfoDefaults, FindAll(Strip(text)))

\* PortMasterV1.clean_name
CleanName(text) == Lower(text)

(***************************************************************************)
(* The provider and the persisted document                                 *)
(***************************************************************************)
None == <<>>

VERSION == 2

UPDATE_FREQUENCY == 79200

SecondsPerDay == 86400

nPortsMd  == <<"p","o","r","t","s",".","m","d">>
nPortsMdU == <<"P","O","R","T","S",".","M","D">>
nDoom     == <<"D",".","z","i","p">>
nDoomMd5  == <<"D",".","z","i","p",".","m","d","5">>
nQuake    == <<"Q",".","z","i","p">>
nQuakeMd5 == <<"Q",".","z","i","p",".","m","d","5">>
nMono     == <<"M",".","S","q","u","a","s","h","f","s">>
sSquashfs == <<".","s","q","u","a","s","h","f","s">>

Url(name) == <<"u","/">> \o name

Asset(name, size) ==
    [name |-> name, size |-> size, browser_download_url |-> Url(name)]

\* the provider's release documents (the 'assets' list of each)
ManifestA == <<Asset(nPortsMd, 1), Asset(nDoom, 5), Asset(nDoomMd5, 1),
               Asset(nMono, 4)>>
ManifestB == <<Asset(nPortsMdU, 1), Asset(nQuake, 3), Asset(nQuakeMd5, 1)>>
ManifestC == <<Asset(nDoom, 5), Asset(nDoomMd5, 1)>>

\* Title_F="Do_om ." locat="D.zip"
LineDoom ==
    <<"T","i","t","l","e","_","F","=","\"","D","o","_","o","m"," ",".","\"",
      " ","l","o","c","a","t","=","\"","D",".","z","i","p","\"">>

\* locat="Q.zip" runtype="x"
LineQuake ==
    <<"l","o","c","a","t","=","\"","Q",".","z","i","p","\"",
      " ","r","u","n","t","y","p","e","=","\"","x","\"">>

\* the bundled ports.md documents: two records and a blank line; one record
PortsMdA == LineDoom \o <<"\n","\n">> \o LineQuake \o <<"\n">>
PortsMdB == LineQuake

Ok(body) == [status |-> 200, body |-> body]
Failed   == [status |-> 500, body |-> <<>>]

Remotes ==
    { [manifest |-> Ok(ManifestA), portsmd |-> Ok(PortsMdA)],
      [manifest |-> Ok(ManifestB), portsmd |-> Ok(PortsMdB)],
      [manifest |-> Ok(ManifestC), portsmd |-> Ok(PortsMdA)],
      [manifest |-> Failed,        portsmd |-> Ok(PortsMdA)],
      [manifest |-> Ok(ManifestA), portsmd |-> Failed] }

\* SOURCE_DEFAULT_PORTMASTER, the fields the adapter reads and writes
DefaultDocument == [version |-> 1, last_checked |-> None, data |-> EmptyDict]

(***************************************************************************)
(* PortMasterV1: construction and update()                                 *)
(***************************************************************************)
\* datetime_compare(time_a): timedelta.seconds of now - time_a, which is the
\* seconds field of the normalised (days, seconds) pair, 0 <= seconds < 86400
DatetimeCompare(time_a, time_b) == (time_b - time_a) % SecondsPerDay

Unbuilt ==
    [status |-> "unbuilt", config |-> None, data |-> EmptyDict,
     info |-> EmptyDict, ports |-> <<>>, utils |-> <<>>]

\* the loop over data['assets']: self._data and self.utils
RECURSIVE LoadAssets(_, _, _)
LoadAssets(assets, data, utils) ==
    IF assets = <<>> THEN [data |-> data, utils |-> utils]
    ELSE LET asset  == Head(assets)
             result == [name |-> asset.name, size |-> asset.size,
                        url |-> asset.browser_download_url]
         IN  LoadAssets(Tail(assets),
                        DictSet(data, CleanName(asset.name), result),
                        IF EndsWith(Lower(asset.name), sSquashfs)
                        THEN Append(utils, CleanName(asset.name))
                        ELSE utils)

\* the loop over the lines of ports.md: self._info and self.ports
RECURSIVE LoadLines(_, _, _)
LoadLines(lines, info, ports) ==
    IF lines = <<>> THEN [info |-> info, ports |-> ports]
    ELSE LET line == Strip(Head(lines))
         IN  IF line = <<>> THEN LoadLines(Tail(lines), info, ports)
             ELSE LET rec      == ParsePortInfo(line)
                      info_key == CleanName(rec[kFile])
                  IN  LoadLines(Tail(lines), DictSet(info, info_key, rec),
                                Append(ports, info_key))

\* an update() that keeps the indexes it had (an incremental refresh)
ResetIndexesKeepsOld(src) == src

\* the four index assignments of update() that follow fetch_json
ResetIndexes(src) ==
    [src EXCEPT !.data = EmptyDict, !.info = EmptyDict,
                !.ports = <<>>, !.utils = <<>>]

\* what update() wrote into self._config, and so into the file
SavedConfig(src, t) ==
    [version |-> VERSION, last_checked |-> <<t>>,
     data |-> DictSet(DictSet(DictSet(DictSet(src.config.data,
                 "ports", src.ports), "utils", src.utils),
                 "info", src.info), "data", src.data)]

\* update(): the object as update() leaves it, the exception it raised (if
\* any), the HTTP requests it made and whether _save() ran
Update(src, rem, t) ==
    Only({
      IF rem.manifest.status # 200
      THEN \* fetch_json returned None: data['assets'] raises
           [raised |-> "TypeError", source |-> s0, fetches |-> 1,
            saved |-> FALSE]
      ELSE Only({
        Only({
          IF nPortsMd \notin DOMAIN s1.data
          THEN [raised |-> "KeyError", source |-> s1, fetches |-> 1,
                saved |-> FALSE]
          ELSE IF rem.portsmd.status # 200
          THEN \* fetch_text returned None: None.split raises
               [raised |-> "AttributeError", source |-> s1, fetches |-> 2,
                saved |-> FALSE]
          ELSE Only({
            Only({
              [raised |-> "none",
               source |-> [s2 EXCEPT !.config = SavedConfig(s2, t)],
               fetches |-> 2, saved |-> TRUE]
              : s2 \in {[s1 EXCEPT !.info = l.info, !.ports = l.ports]}})
            : l \in {LoadLines(Split(rem.portsmd.body, "\n"),
                               s1.info, s1.ports)}})
          : s1 \in {[s0 EXCEPT !.data = a.data, !.utils = a.utils]}})
        : a \in {LoadAssets(rem.manifest.body, s0.data, s0.utils)}})
      : s0 \in {ResetIndexes(src)}})

\* an __init__ that does not look at the schema version
StalenessBranchNoSchemaCheck(config, t) ==
    IF config.last_checked = None THEN "first"
    ELSE IF DatetimeCompare(config.last_checked[1], t) > UPDATE_FREQUENCY
         THEN "auto"
    ELSE "fresh"

\* the if/elif chain of __init__
StalenessBranch(config, t) ==
    IF config.version # VERSION THEN "outdated"
    ELSE IF config.last_checked = None THEN "first"
    ELSE IF DatetimeCompare(config.last_checked[1], t) > UPDATE_FREQUENCY
         THEN "auto"
    ELSE "fresh"

\* what a call of update() on object src does to the process and the file;
\* op and branch say which handler called it and on which branch
RunUpdate(src, op, branch) ==
    \E u \in {Update(src, remote, now)} :
        /\ source' = [u.source EXCEPT
                        !.status = IF u.raised = "none" THEN "ready" ELSE "failed"]
        /\ disk' = IF u.saved THEN u.source.config ELSE disk
        /\ calls' = [op |-> op, branch |-> branch, updates |-> 1,
                     fetches |-> u.fetches, raised |-> u.raised]

\* the else branch of __init__: the indexes come from the cached document
LoadCached(self) ==
    [self EXCEPT !.status = "ready",
                 !.data = self.config.data.data,
                 !.info = self.config.data.info,
                 !.ports = self.config.data.ports,
                 !.utils = self.config.data.utils]

\* HarbourMaster.load_sources: json.load of the document, then the adapter's
\* __init__
Construct ==
    /\ source.status = "unbuilt"
    /\ LET self == [Unbuilt EXCEPT !.config = disk]
       IN  IF StalenessBranch(disk, now) = "fresh"
           THEN /\ source' = LoadCached(self)
                /\ calls' = [op |-> "construct", branch |-> "fresh",
                             updates |-> 0, fetches |-> 0, raised |-> "none"]
                /\ disk' = disk
           ELSE RunUpdate(self, "construct", StalenessBranch(disk, now))
    /\ UNCHANGED <<now, ticks, remote, notSource>>

\* do_update: update() on the loaded source
DoUpdate ==
    /\ source.status = "ready"
    /\ RunUpdate(source, "do_update", "none")
    /\ UNCHANGED <<now, ticks, remote, notSource>>

\* the process ends (main returns, or the exception of a failed update()
\* ends it); the next run builds its objects anew
Exit ==
    /\ source.status \in {"ready", "failed"}
    /\ source' = Unbuilt
    /\ calls' = [op |-> "none", branch |-> "none", updates |-> 0,
                 fetches |-> 0, raised |-> "none"]
    /\ UNCHANGED <<now, ticks, disk, remote, notSource>>

MaxTicks == 3

\* the clock advances: a second, the refresh threshold, or a day
Steps == {1, UPDATE_FREQUENCY, SecondsPerDay}

Tick ==
    /\ ticks < MaxTicks
    /\ \E d \in Steps : now' = now + d
    /\ ticks' = ticks + 1
    /\ UNCHANGED <<disk, remote, source, calls, notSource>>

\* the provider publishes another release, or starts or stops failing
Publish ==
    /\ \E r \in Remotes \ {remote} : remote' = r
    /\ UNCHANGED <<now, ticks, disk, source, calls, notSource>>
\* locat="O.zip"
LineOld == <<"l","o","c","a","t","=","\"","O",".","z","i","p","\"">>

nOld == <<"O",".","z","i","p">>

\* a document written by the adapter when its schema version was 1
OldDocument ==
    [version |-> 1, last_checked |-> <<0>>,
     data |-> [ports |-> <<CleanName(nOld)>>, utils |-> <<>>,
               info |-> (CleanName(nOld) :> ParsePortInfo(LineOld)),
               data |-> (CleanName(nOld) :>
                           [name |-> nOld, size |-> 2, url |-> Url(nOld)])]]

NoCalls ==
    [op |-> "none", branch |-> "none", updates |-> 0, fetches |-> 0,
     raised |-> "none"]

\* no port_info_load call is under way
IdleLoad == raw = EmptyDict /\ loaded = [called |-> FALSE]

\* no port_info_merge call is under way
IdleMerge == base = EmptyDict /\ other = EmptyDict /\ mlast = [merged |-> FALSE]

\* no install process is running
NoInstall == [op |-> "none"]

IdleInstall ==
    /\ cfgdir = {}
    /\ net = EmptyDict
    /\ sources = <<>>
    /\ tmp = EmptyDict
    /\ ilog = NoInstall

\* no catalog line is being parsed
IdleParse == mdline = <<>> /\ made = [by |-> "none"] /\ parsed = None

InitSource ==
    /\ IdleLoad
    /\ IdleMerge
    /\ IdleInstall
    /\ IdleParse
    /\ now = 0
    /\ ticks = 0
    /\ disk \in {DefaultDocument, OldDocument}
    /\ remote \in Remotes
    /\ source = Unbuilt
    /\ calls = NoCalls

NextSource == Construct \/ DoUpdate \/ Exit \/ Tick \/ Publish

SpecSource == InitSource /\ [][NextSource]_vars
(***************************************************************************)
(* Claims about the refresh protocol (SpecSource)                          *)
(***************************************************************************)
Range(f) == {f[x] : x \in DOMAIN f}

\* a step in which load_sources builds the Source from the persisted document
ConstructStep == source.status = "unbuilt" /\ source'.status # "unbuilt"

\* a step in which update() ran to its end
UpdateCompleted ==
    /\ source.status \in {"unbuilt", "ready"}
    /\ source'.status = "ready"
    /\ calls'.updates = 1
    /\ UNCHANGED <<now, ticks, remote>>

\* a step in which update() was called on a built Source and a fetch failed
UpdateFetchFailed ==
    /\ source.status = "ready"
    /\ source'.status = "failed"
    /\ calls'.raised \in {"TypeError", "AttributeError"}

\* C1: a cached document of the current schema version with a non-null
\* last_checked makes construction call update() when the time elapsed since
\* last_checked is at or beyond the refresh threshold, and makes it perform
\* no network request when the elapsed time is below the threshold.
C1_StalenessDecision ==
    [][(ConstructStep /\ disk.version = VERSION /\ disk.last_checked # None)
        => LET elapsed == now - disk.last_checked[1]
           IN  /\ elapsed >= UPDATE_FREQUENCY => calls'.updates = 1
               /\ elapsed < UPDATE_FREQUENCY => calls'.fetches = 0]_vars

\* C5: when the manifest fetch or the metadata fetch of update() fails, the
\* Source's ports, utils and two indexes, its SourceConfig and the persisted
\* document are the same after the call as before it.
C5_FailedUpdateChangesNothing ==
    [][UpdateFetchFailed
        => /\ source'.ports = source.ports
           /\ source'.utils = source.utils
           /\ source'.info = source.info
           /\ source'.data = source.data
           /\ source'.config = source.config
           /\ disk' = disk]_vars

\* the catalog keys the provider publishes at this moment
FetchedAssetKeys == {CleanName(a.name) : a \in Range(remote.manifest.body)}

FetchedUtilKeys ==
    {CleanName(a.name) : a \in {b \in Range(remote.manifest.body) :
                                   EndsWith(Lower(b.name), sSquashfs)}}

FetchedRecords ==
    {ParsePortInfo(l) : l \in {m \in Range(Split(remote.portsmd.body, "\n")) :
                                  Strip(m) # <<>>}}

FetchedPortKeys == {CleanName(r[kFile]) : r \in FetchedRecords}

\* C6: after update() completes, the CatalogEntry index, ports, utils and the
\* PortInfo index hold exactly what the manifest and metadata document just
\* fetched give (nothing of the previous catalog survives unless it was
\* fetched again), the config version is the adapter's, last_checked is set,
\* the persisted document equals the in-memory SourceConfig, and a Source
\* built from that document right away is FRESH and makes no request.
C6_FullResync ==
    /\ [][UpdateCompleted
           => /\ DOMAIN source'.data = FetchedAssetKeys
              /\ \A k \in DOMAIN source'.data :
                    \E a \in Range(remote.manifest.body) :
                       /\ CleanName(a.name) = k
                       /\ source'.data[k] = [name |-> a.name, size |-> a.size,
                                             url |-> a.browser_download_url]
              /\ Range(source'.utils) = FetchedUtilKeys
              /\ Range(source'.ports) = FetchedPortKeys
              /\ DOMAIN source'.info = FetchedPortKeys
              /\ Range(source'.info) \subseteq FetchedRecords
              /\ source'.config.version = VERSION
              /\ source'.config.last_checked = <<now>>
              /\ source'.config.data =
                    [ports |-> source'.ports, utils |-> source'.utils,
                     info |-> source'.info, data |-> source'.data]
              /\ disk' = source'.config]_vars
    /\ [][(ConstructStep /\ disk.version = VERSION /\ disk.last_checked = <<now>>)
           => /\ calls'.fetches = 0
              /\ calls'.updates = 0
              /\ source'.status = "ready"
              /\ source'.ports = disk.data.ports
              /\ source'.info = disk.data.info]_vars

\* an update() replaced a catalog that was already loaded
C6_Witness ==
    /\ calls.op = "do_update"
    /\ calls.raised = "none"
    /\ source.status = "ready"
    /\ source.ports # <<>>
    /\ disk = source.config

\* C7: a Source built from a document whose schema version is not the
\* adapter's, or whose last_checked is null, calls update() exactly once
\* before construction returns, whatever last_checked and the cached payload
\* are, and what it then serves is the fetched catalog, not the cached one.
C7_SchemaAndFirstUseRefresh ==
    [][(ConstructStep /\ (disk.version # VERSION \/ disk.last_checked = None))
        => /\ calls'.updates = 1
           /\ calls'.fetches >= 1
           /\ source'.status = "ready"
                => /\ DOMAIN source'.data = FetchedAssetKeys
                   /\ Range(source'.ports) = FetchedPortKeys
                   /\ DOMAIN source'.info = FetchedPortKeys]_vars

\* a Source was built from an outdated-schema document that had a
\* last_checked and a cached payload
C7_Witness ==
    /\ calls.op = "construct"
    /\ calls.branch = "outdated"
    /\ calls.updates = 1
    /\ source.status = "ready"
    /\ OldDocument.last_checked # None
    /\ CleanName(nOld) \notin DOMAIN source.data
(***************************************************************************)
(* Port metadata (info.py).  A Python value carries its type: the tests of *)
(* port_info_merge are isinstance tests and == comparisons across types.   *)
(* A dict is a function from key names to values; a list holds strings.    *)
(***************************************************************************)
PyNone    == [t |-> "none"]
PyBool(b) == [t |-> "bool", v |-> b]
PyInt(n)  == [t |-> "int", v |-> n]
PyStr(s)  == [t |-> "str", v |-> s]
PyList(l) == [t |-> "list", v |-> l]
PyDict(d) == [t |-> "dict", v |-> d]

\* a == b of Python: True == 1 and False == 0, otherwise like with like
PyEq(a, b) ==
    IF a.t \in {"bool", "int"} /\ b.t \in {"bool", "int"}
    THEN LET Num(x) == IF x.t = "int" THEN x.v ELSE IF x.v THEN 1 ELSE 0
         IN  Num(a) = Num(b)
    ELSE a.t = b.t /\ a = b

\* a in (x, y, ...)
PyIn(a, tuple) == \E i \in DOMAIN tuple : PyEq(a, tuple[i])

\* PORT_INFO_ROOT_ATTRS, in the order of the dict
ROOT_ATTRS == <<"version", "name", "items", "items_opt", "attr", "status", "files">>

PORT_INFO_ROOT_ATTRS ==
    [version |-> PyInt(2), name |-> PyNone, items |-> PyNone,
     items_opt |-> PyNone, attr |-> PyDict(EmptyDict), status |-> PyNone,
     files |-> PyNone]

\* PORT_INFO_ATTR_ATTRS, in the order of the dict
ATTR_ATTRS ==
    <<"title", "desc", "inst", "genres", "porter", "image", "rtr", "runtime", "reqs">>

PORT_INFO_ATTR_ATTRS ==
    [title |-> PyStr(<<>>), desc |-> PyStr(<<>>), inst |-> PyStr(<<>>),
     genres |-> PyList(<<>>), porter |-> PyStr(<<>>), image |-> PyDict(EmptyDict),
     rtr |-> PyBool(FALSE), runtime |-> PyNone, reqs |-> PyList(<<>>)]

sBlank   == <<"b","l","a","n","k">>
sUnknown == <<"U","n","k","n","o","w","n">>
sRpg     == <<"r","p","g">>
sFps     == <<"f","p","s">>

\* the genre vocabulary (the util module that defines HM_GENRES is not part
\* of the sources; the tags are those the specification's data model fixes)
HM_GENRES == {sRpg, sFps}

\* dict.pop(k) / del d[k]
DictDel(d, k) == Only({[x \in (DOMAIN dd) \ {k} |-> dd[x]] : dd \in {d}})

\* del l[i] (i counted from 1)
ListDel(l, i) ==
    Only({SubSeq(ll, 1, i - 1) \o SubSeq(ll, i + 1, Len(ll)) : ll \in {l}})

\* the while loop over port_info['items'] (and the one over items_opt); i is
\* the loop index, counted from 1.  The three bad-name tests delete and
\* continue; the empty-name test deletes and falls through to i += 1.
RECURSIVE SanitizeFrom(_, _)
SanitizeFrom(items, i) ==
    IF i > Len(items) THEN items
    ELSE IF StartsWith(items[i], <<"/">>) THEN SanitizeFrom(ListDel(items, i), i)
    ELSE IF StartsWith(items[i], <<".",".","/">>)
         THEN SanitizeFrom(ListDel(items, i), i)
    ELSE IF Contains(items[i], <<"/",".",".","/">>)
         THEN SanitizeFrom(ListDel(items, i), i)
    ELSE IF items[i] = <<>> THEN SanitizeFrom(ListDel(items, i), i + 1)
    ELSE SanitizeFrom(items, i + 1)

Sanitize(items) == Only({SanitizeFrom(l, 1) : l \in {items}})

\* the genres loop: the genres of the vocabulary, casefolded
RECURSIVE FilterGenres(_)
FilterGenres(genres) ==
    IF genres = <<>> THEN <<>>
    ELSE (IF Lower(Head(genres)) \in HM_GENRES THEN <<Lower(Head(genres))>>
          ELSE <<>>) \o FilterGenres(Tail(genres))

\* [key for key in d]: the keys of a dict as a list (the order of a dict of
\* several keys is its insertion order, which a function does not carry)
KeyList(d) ==
    LET Seqs == {q \in [1..Cardinality(DOMAIN d) -> DOMAIN d] :
                    \A i, j \in DOMAIN q : i # j => q[i] # q[j]}
    IN  CHOOSE q \in Seqs : TRUE

\* info.get('attr', {}): the attr dict as a function (EmptyDict when absent);
\* an attr that is present is a dict
AttrOf(info) == IF "attr" \in DOMAIN info THEN info.attr.v ELSE EmptyDict

\* lines 98-115: the version-1 migration.  Returns the exception raised (if
\* any) and the migrated copy; info['attr'] is the caller's own dict, so the
\* runtime assignment shows in the copy and in the input alike.
Migrate(info) ==
    IF ~(PyEq(DictGet(info, "version", PyNone), PyInt(1)) \/ "source" \in DOMAIN info)
    THEN [raised |-> "none", info |-> info]
    ELSE IF "source" \notin DOMAIN info
    THEN [raised |-> "KeyError", info |-> info]
    ELSE IF info.source.t # "str"
    THEN [raised |-> "AttributeError", info |-> info]
    ELSE Only({
      Only({
        IF PyEq(DictGet(AttrOf(i2), "runtime", PyNone), PyStr(sBlank))
        THEN [raised |-> "none",
              info |-> DictSet(i2, "attr",
                               PyDict(DictSet(i2.attr.v, "runtime", PyNone)))]
        ELSE [raised |-> "none", info |-> i2]
        : i2 \in {IF DictGet(i1, "md5", PyNone) # PyNone
                  THEN DictDel(DictSet(i1, "status",
                          PyDict([source |-> PyStr(sUnknown), md5 |-> i1.md5,
                                  status |-> PyStr(sUnknown)])), "md5")
                  ELSE i1}})
      : i1 \in {DictSet(DictDel(DictSet(info, "name",
                    PyStr(RSplitLast(info.source.v, "/"))), "source"),
                    "version", PyInt(2))}})

\* lines 117-120: a reqs dict becomes the list of its keys
ReqsToList(info) ==
    IF DictGet(AttrOf(info), "reqs", PyNone).t = "dict"
    THEN DictSet(info, "attr",
                 PyDict(DictSet(info.attr.v, "reqs",
                                PyList(KeyList(info.attr.v.reqs.v)))))
    ELSE info

\* lines 123-135: the root fields, then the attr fields, from the input or
\* from the defaults; port_info['attr'] is the input's attr dict when it has
\* one, so keys outside the schema stay in it
RECURSIVE FillAttrs(_, _, _)
FillAttrs(attr, src, names) ==
    IF names = <<>> THEN attr
    ELSE FillAttrs(DictSet(attr, Head(names),
                           DictGet(src, Head(names), PORT_INFO_ATTR_ATTRS[Head(names)])),
                   src, Tail(names))

FillDefaults(info) ==
    Only({[root EXCEPT !.attr = PyDict(FillAttrs(root.attr.v, AttrOf(info), ATTR_ATTRS))]
          : root \in {[a \in Range(ROOT_ATTRS) |->
                         DictGet(info, a, PORT_INFO_ROOT_ATTRS[a])]}})

\* lines 137-188: the two path loops
SanitizeItems(port_info) ==
    Only({
      IF p1.items_opt.t = "list"
      THEN Only({[p1 EXCEPT !.items_opt = IF opt = <<>> THEN PyNone ELSE PyList(opt)]
                 : opt \in {Sanitize(p1.items_opt.v)}})
      ELSE p1
      : p1 \in {IF port_info.items.t = "list"
                THEN [port_info EXCEPT !.items = PyList(Sanitize(port_info.items.v))]
                ELSE port_info}})

\* lines 190-196
SanitizeGenres(port_info) ==
    IF DictGet(port_info.attr.v, "genres", PyNone).t = "list"
    THEN [port_info EXCEPT !.attr =
             PyDict(DictSet(port_info.attr.v, "genres",
                            PyList(FilterGenres(port_info.attr.v.genres.v))))]
    ELSE port_info

\* what the caller's record looks like once load has returned port_info:
\* its attr dict and its items and items_opt lists are the objects load
\* worked on
InputAfter(raw_info, port_info) ==
    [k \in DOMAIN raw_info |->
        IF k = "attr" THEN port_info.attr
        ELSE IF k = "items" /\ raw_info[k].t = "list" THEN port_info.items
        ELSE IF k = "items_opt" /\ raw_info[k].t = "list"
             THEN (IF port_info.items_opt = PyNone THEN PyList(<<>>)
                   ELSE port_info.items_opt)
        ELSE raw_info[k]]

\* port_info_load(raw_info) for a dict raw_info: the exception raised (if
\* any), the PortInfo returned and the caller's record afterwards
Load(raw_info) ==
    Only({
      IF m.raised # "none"
      THEN [raised |-> m.raised, port_info |-> PyNone, input |-> raw_info]
      ELSE Only({
        [raised |-> "none", port_info |-> p, input |-> InputAfter(raw_info, p)]
        : p \in {SanitizeGenres(SanitizeItems(FillDefaults(ReqsToList(m.info))))}})
      : m \in {Migrate(raw_info)}})
(***************************************************************************)
(* port_info_load on pre-structured records (SpecLoad)                     *)
(***************************************************************************)
pAbs    == <<"/","e">>
pUp     == <<".",".","/","s">>
pInner  == <<"a","/",".",".","/","b">>
pEmpty  == <<>>
pGood   == <<"s","/","f">>
pGood2  == <<"g">>

Paths == {pAbs, pUp, pInner, pEmpty, pGood, pGood2}

MaxItems == 3

MaxOptItems == 2

ListsUpTo(S, n) == UNION {[1..k -> S] : k \in 0..n}

sRepoQuake == <<"r","e","p","o","/","Q",".","z","i","p">>
sDeepQuake == <<"a","/","b","/","Q",".","z","i","p">>
sAbc       == <<"a","b","c">>
sMono      == <<"m","o","n","o">>

\* a record made of the fields that are present: opt maps a key to the set
\* of values it may take, the empty tuple standing for "key absent"
Absent == <<>>

Without(d) == [k \in {x \in DOMAIN d : d[x] # Absent} |-> d[k]]

\* records that exercise the two path lists
ItemRecords ==
    {Without([version |-> PyInt(2), items |-> PyList(l), items_opt |-> Absent])
        : l \in ListsUpTo(Paths, MaxItems)}
    \cup
    {Without([version |-> PyInt(2), items |-> i, items_opt |-> PyList(l)])
        : l \in ListsUpTo(Paths, MaxOptItems), i \in {Absent, PyNone, PyList(<<pGood, pEmpty>>)}}

\* records that exercise the version-1 migration
LegacyRecords ==
    {Without([version |-> v, source |-> src, md5 |-> md5, attr |-> attr,
              name |-> name])
        : v \in {Absent, PyInt(1), PyInt(2)},
          src \in {Absent, PyStr(nQuake), PyStr(sRepoQuake), PyStr(sDeepQuake)},
          md5 \in {Absent, PyNone, PyStr(sAbc)},
          attr \in {Absent, PyDict(EmptyDict),
                    PyDict([runtime |-> PyStr(sBlank)]),
                    PyDict([runtime |-> PyStr(sMono), genres |-> PyList(<<sRpg>>)])},
          name \in {Absent, PyStr(nDoom)}}

RawRecords == ItemRecords \cup LegacyRecords

\* port_info_load(raw)
LoadRecord ==
    /\ ~loaded.called
    /\ raw # EmptyDict
    /\ \E r \in {Load(raw)} :
          /\ loaded' = [called |-> TRUE, given |-> raw, raised |-> r.raised,
                        port_info |-> r.port_info]
          /\ raw' = r.input
    /\ UNCHANGED notLoad

\* the refresh protocol is not running
IdleSource ==
    /\ now = 0
    /\ ticks = 0
    /\ disk = DefaultDocument
    /\ remote = [manifest |-> Failed, portsmd |-> Failed]
    /\ source = Unbuilt
    /\ calls = NoCalls

InitLoad ==
    /\ IdleSource
    /\ IdleMerge
    /\ IdleInstall
    /\ IdleParse
    /\ raw \in RawRecords
    /\ loaded = [called |-> FALSE]

NextLoad == LoadRecord

SpecLoad == InitLoad /\ [][NextLoad]_vars
(***************************************************************************)
(* Claims about port_info_load (SpecLoad)                                  *)
(***************************************************************************)
\* a path the data model forbids: absolute, with a '..' segment that a '/'
\* follows, or empty
HasParentSegment(path) ==
    LET segs == Split(path, "/")
    IN  \E i \in 1..(Len(segs) - 1) : segs[i] = <<".",".">>

IsUnsafePath(path) ==
    \/ path = <<>>
    \/ path[1] = "/"
    \/ HasParentSegment(path)

\* the safe entries of a list, in their order
RECURSIVE SafeEntries(_)
SafeEntries(l) ==
    IF l = <<>> THEN <<>>
    ELSE (IF IsUnsafePath(Head(l)) THEN <<>> ELSE <<Head(l)>>)
         \o SafeEntries(Tail(l))

\* the entries of a returned items / items_opt value (null has none)
Entries(value) == IF value.t = "list" THEN value.v ELSE <<>>

\* the last load was given lists in items or items_opt and returned
LoadedLists ==
    /\ loaded.called
    /\ loaded.raised = "none"
    /\ \/ DictGet(loaded.given, "items", PyNone).t = "list"
       \/ DictGet(loaded.given, "items_opt", PyNone).t = "list"

\* C3: whatever the items and items_opt lists given to load are, the record
\* it returns has no entry in either that is absolute, has a '../' segment
\* or is empty, and keeps every other entry in its original order.
C3_PathSafety ==
    LoadedLists
    => \A f \in {"items", "items_opt"} :
          DictGet(loaded.given, f, PyNone).t = "list"
          => /\ \A i \in DOMAIN Entries(loaded.port_info[f]) :
                   ~IsUnsafePath(Entries(loaded.port_info[f])[i])
             /\ Entries(loaded.port_info[f]) = SafeEntries(loaded.given[f].v)

\* the last load was given a version-1 document
LoadedVersion1 ==
    /\ loaded.called
    /\ DictGet(loaded.given, "version", PyNone) = PyInt(1)

\* C8: load turns every version-1 document into a record of version 2 whose
\* name is what follows the last '/' of the legacy source field, without a
\* source field, with status.md5 the legacy md5 when there was one and
\* attr.runtime null when it was "blank"; load fails on no version-1 document.
C8_Version1Migration ==
    LoadedVersion1
    => /\ loaded.raised = "none"
       /\ loaded.port_info.version = PyInt(2)
       /\ "source" \notin DOMAIN loaded.port_info
       /\ loaded.port_info.name = PyStr(RSplitLast(loaded.given.source.v, "/"))
       /\ DictGet(loaded.given, "md5", PyNone) # PyNone
             => /\ loaded.port_info.status.t = "dict"
                /\ loaded.port_info.status.v.md5 = loaded.given.md5
       /\ PyEq(DictGet(AttrOf(loaded.given), "runtime", PyNone), PyStr(sBlank))
             => loaded.port_info.attr.v.runtime = PyNone
\* C14: load does not modify the record it is given: its root fields, its
\* attr record and its items and items_opt lists are after the call what
\* they were before it, version-1 documents and records with unsafe paths
\* included.
C14_LoadKeepsInput ==
    loaded.called
    => /\ DOMAIN raw = DOMAIN loaded.given
       /\ \A k \in DOMAIN raw :
             raw[k].t = loaded.given[k].t /\ raw[k] = loaded.given[k]

(***************************************************************************)
(* port_info_merge (SpecMerge)                                             *)
(***************************************************************************)
PyTrueFalse == <<PyBool(TRUE), PyBool(FALSE)>>

\* a merge that adds other's list to a list base already has
MergeAttrValueExtends(value_a, value_b) ==
    IF value_b.t = "list" /\ value_a.t = "list"
    THEN PyList(value_a.v \o value_b.v)
    ELSE IF PyIn(value_b, PyTrueFalse)
            /\ PyIn(value_a, <<PyBool(TRUE), PyBool(FALSE), PyNone>>)
    THEN value_b
    ELSE IF value_b.t = "str" /\ PyIn(value_a, <<PyStr(<<>>), PyNone>>)
    THEN value_b
    ELSE IF value_b.t = "list" /\ PyIn(value_a, <<PyList(<<>>), PyNone>>)
    THEN value_b
    ELSE IF value_b.t = "dict" /\ PyIn(value_a, <<PyDict(EmptyDict), PyNone>>)
    THEN value_b
    ELSE value_a

\* lines 242-256: what port_info['attr'][key_b] is after the four tests, from
\* its value and other's
MergeAttrValue(value_a, value_b) ==
    IF PyIn(value_b, PyTrueFalse)
       /\ PyIn(value_a, <<PyBool(TRUE), PyBool(FALSE), PyNone>>)
    THEN value_b
    ELSE IF value_b.t = "str" /\ PyIn(value_a, <<PyStr(<<>>), PyNone>>)
    THEN value_b
    ELSE IF value_b.t = "list" /\ PyIn(value_a, <<PyList(<<>>), PyNone>>)
    THEN value_b
    ELSE IF value_b.t = "dict" /\ PyIn(value_a, <<PyDict(EmptyDict), PyNone>>)
    THEN value_b
    ELSE value_a

\* lines 215-236: the same for a root field, with the test for an empty
\* value_a in front
MergeRootValue(value_a, value_b) ==
    IF \/ value_a.t = "none"
       \/ PyEq(value_a, PyStr(<<>>))
       \/ PyEq(value_a, PyList(<<>>))
    THEN value_b
    ELSE MergeAttrValue(value_a, value_b)

\* the root fields the first loop reaches before its break at 'attr'
RECURSIVE RootAttrsBeforeAttr(_)
RootAttrsBeforeAttr(names) ==
    IF names = <<>> \/ Head(names) = "attr" THEN {}
    ELSE {Head(names)} \cup RootAttrsBeforeAttr(Tail(names))

\* port_info_merge(port_info, other) for a dict other: port_info afterwards
Merge(port_info, other_info) ==
    Only({
      [f \in DOMAIN p |->
          IF f \in RootAttrsBeforeAttr(ROOT_ATTRS)
          THEN MergeRootValue(p[f], o[f])
          ELSE IF f = "attr"
          THEN PyDict([k \in DOMAIN p.attr.v |->
                          IF k \in DOMAIN o.attr.v
                          THEN MergeAttrValue(p.attr.v[k], o.attr.v[k])
                          ELSE p.attr.v[k]])
          ELSE p[f]]
      : p \in {port_info}, o \in {other_info}})

\* records from which load makes the PortInfos that are merged
MergeRecords ==
    { EmptyDict,
      [name |-> PyStr(nDoom), items |-> PyList(<<pGood>>),
       attr |-> PyDict([title |-> PyStr(<<"T">>), rtr |-> PyBool(TRUE),
                        runtime |-> PyStr(sMono), genres |-> PyList(<<sRpg>>),
                        image |-> PyDict([screenshot |-> PyStr(sAbc)])]),
       status |-> PyDict([md5 |-> PyStr(sAbc)]),
       files |-> PyDict([port |-> PyStr(pGood2)])],
      [name |-> PyStr(nQuake), items |-> PyList(<<pGood2>>),
       items_opt |-> PyList(<<pGood>>),
       attr |-> PyDict([title |-> PyStr(<<"U">>), desc |-> PyStr(sAbc),
                        rtr |-> PyBool(FALSE), reqs |-> PyList(<<sMono>>),
                        extra |-> PyStr(sAbc)])],
      [version |-> PyInt(1), source |-> PyStr(sRepoQuake), md5 |-> PyStr(sAbc)],
      [attr |-> PyDict([rtr |-> PyBool(TRUE), genres |-> PyList(<<sFps>>)])],
      [name |-> PyStr(<<>>), items |-> PyList(<<>>),
       attr |-> PyDict([runtime |-> PyStr(sBlank)])] }

\* the canonical PortInfos, as load produces them
PortInfos == {Load(r).port_info : r \in MergeRecords}

\* port_info_merge(base, other)
MergeOther ==
    /\ base' = Merge(base, other)
    /\ mlast' = [merged |-> TRUE, base |-> base, other |-> other]
    /\ UNCHANGED <<other, notMerge>>

\* port_info_merge(base, base)
MergeSelf ==
    /\ base' = Merge(base, base)
    /\ mlast' = [merged |-> TRUE, base |-> base, other |-> base]
    /\ UNCHANGED <<other, notMerge>>

\* the caller turns to another record to merge in
NextOther ==
    /\ mlast.merged
    /\ \E o \in PortInfos \ {other} : other' = o
    /\ mlast' = [merged |-> FALSE]
    /\ UNCHANGED <<base, notMerge>>

InitMerge ==
    /\ IdleSource
    /\ IdleLoad
    /\ IdleInstall
    /\ IdleParse
    /\ base \in PortInfos
    /\ other \in PortInfos
    /\ mlast = [merged |-> FALSE]

NextMerge == MergeOther \/ MergeSelf \/ NextOther

SpecMerge == InitMerge /\ [][NextMerge]_vars

(***************************************************************************)
(* Claims about port_info_merge (SpecMerge)                                *)
(***************************************************************************)
\* a value that is not an empty sentinel: not null, not an empty string,
\* sequence or record, and not an unset (false) boolean
Populated(value) ==
    /\ value.t # "none"
    /\ value.t \in {"str", "list", "dict"} => value.v # <<>>
    /\ value.t = "bool" => value.v

RootFields == Range(ROOT_ATTRS) \ {"attr"}

\* C2: merge never overwrites a populated field: every root field and every
\* attr field of base that was non-empty before the call is unchanged after
\* it, whatever other holds.
C2_NeverOverwritesPopulated ==
    mlast.merged
    => /\ \A f \in RootFields :
             Populated(mlast.base[f]) => base[f] = mlast.base[f]
       /\ \A k \in DOMAIN mlast.base.attr.v :
             Populated(mlast.base.attr.v[k])
                => base.attr.v[k] = mlast.base.attr.v[k]

\* C10: merge(R, R) is R, in every root and attr field.
C10_MergeIdempotent ==
    (mlast.merged /\ mlast.other = mlast.base) => base = mlast.base

\* a record with populated root and attr fields was merged with itself
C10_Witness ==
    /\ mlast.merged
    /\ mlast.other = mlast.base
    /\ Populated(mlast.base.name)
    /\ Populated(mlast.base.items)
    /\ Populated(mlast.base.attr.v.genres)
    /\ Populated(mlast.base.attr.v.rtr)

\* C12: after merge(base, other), every root field (version, name, items,
\* items_opt, status, files) and every canonical attr field that was at its
\* empty sentinel in base before the call holds other's value for it.
C12_MergeFillsEveryGap ==
    mlast.merged
    => /\ \A f \in RootFields :
             ~Populated(mlast.base[f])
                => base[f].t = mlast.other[f].t /\ base[f] = mlast.other[f]
       /\ \A k \in Range(ATTR_ATTRS) :
             ~Populated(mlast.base.attr.v[k])
                => /\ base.attr.v[k].t = mlast.other.attr.v[k].t
                   /\ base.attr.v[k] = mlast.other.attr.v[k]
(***************************************************************************)
(* The registry, download() and the install command (SpecInstall)          *)
(***************************************************************************)
sPm  == <<"p","m">>
sKl  == <<"k","l">>
sMd5 == <<".","m","d","5">>

\* the document the adapter saved after a first update() against rem
CatalogDocument(rem) ==
    Update([Unbuilt EXCEPT !.config = DefaultDocument], rem, 0).source.config

CatalogA == CatalogDocument([manifest |-> Ok(ManifestA), portsmd |-> Ok(PortsMdA)])
CatalogB == CatalogDocument([manifest |-> Ok(ManifestB), portsmd |-> Ok(PortsMdB)])

\* NNN_x.source.json files: the number NNN of the name, the prefix and the
\* adapter's fields of the document
SourceFiles ==
    { [file |-> 0,  prefix |-> sPm, config |-> CatalogA],
      [file |-> 10, prefix |-> sKl, config |-> CatalogA],
      [file |-> 20, prefix |-> sPm, config |-> CatalogB] }

ConfigDirs == (SUBSET SourceFiles) \ {{}}

\* source_files.sort()
RECURSIVE SortFiles(_)
SortFiles(files) ==
    IF files = {} THEN <<>>
    ELSE LET first == CHOOSE f \in files : \A g \in files : f.file <= g.file
         IN  <<first>> \o SortFiles(files \ {first})

\* self.sources[prefix] = source: a new key goes last, a key the dict has
\* keeps its place and gets the new value
RegistrySet(reg, prefix, src) ==
    IF \E i \in DOMAIN reg : reg[i].prefix = prefix
    THEN [i \in DOMAIN reg |->
             IF reg[i].prefix = prefix
             THEN [prefix |-> prefix, source |-> src] ELSE reg[i]]
    ELSE Append(reg, [prefix |-> prefix, source |-> src])

\* the loop of load_sources over the sorted files: the registry, the files
\* the adapters saved, and the exception that ended the loop (if any)
RECURSIVE LoadSourceFiles(_, _, _, _, _)
LoadSourceFiles(files, reg, dir, rem, t) ==
    IF files = <<>> THEN [raised |-> "none", sources |-> reg, cfgdir |-> dir]
    ELSE Only({
      IF StalenessBranch(f.config, t) = "fresh"
      THEN LoadSourceFiles(Tail(files),
                           RegistrySet(reg, f.prefix, LoadCached(self)),
                           dir, rem, t)
      ELSE Only({
        IF u.raised # "none"
        THEN [raised |-> u.raised, sources |-> reg, cfgdir |-> dir]
        ELSE LoadSourceFiles(Tail(files),
                 RegistrySet(reg, f.prefix,
                             [u.source EXCEPT !.status = "ready"]),
                 (dir \ {f}) \cup {[f EXCEPT !.config = u.source.config]},
                 rem, t)
        : u \in {Update(self, rem, t)}})
      : f \in {Head(files)},
        self \in {[Unbuilt EXCEPT !.config = Head(files).config]}})

\* hashlib.md5(), md5.update(data) and md5.hexdigest(), as a 4-bit digest
Md5Init == 0

HexDigits ==
    <<"0","1","2","3","4","5","6","7","8","9","a","b","c","d","e","f">>

RECURSIVE Md5Update(_, _)
Md5Update(h, data) ==
    IF data = <<>> THEN h
    ELSE Md5Update((h * 5 + Head(data) + 1) % 16, Tail(data))

HexDigest(h) == <<HexDigits[h + 1]>>

\* zip_file.unlink() removes nothing
UnlinkKeepsFile(files, name) == files

\* zip_file.unlink()
Unlink(files, name) == [k \in (DOMAIN files) \ {name} |-> files[k]]

\* the loop over r.iter_content: the digest, the bytes written and counted,
\* and the ZeroDivisionError of the progress bar when total_length is 0
RECURSIVE Stream(_, _, _, _, _)
Stream(chunks, total_length, md5, written, length) ==
    IF chunks = <<>>
    THEN [raised |-> "none", md5 |-> md5, written |-> written,
          length |-> length]
    ELSE IF total_length = 0
    THEN [raised |-> "ZeroDivisionError",
          md5 |-> Md5Update(md5, Head(chunks)),
          written |-> written \o Head(chunks),
          length |-> length + Len(Head(chunks))]
    ELSE Stream(Tail(chunks), total_length, Md5Update(md5, Head(chunks)),
                written \o Head(chunks), length + Len(Head(chunks)))

\* PortMasterV1.download(port_name) with the host answering ans and the
\* temporary directory holding files: the exception (if any), the value
\* returned, the HTTP requests made, whether zip_file was opened for
\* writing, and the temporary directory afterwards
Download(src, port_name, ans, files) ==
    IF (port_name \o sMd5) \notin DOMAIN src.data
    THEN [raised |-> "KeyError", result |-> None, requests |-> 0,
          opened |-> FALSE, files |-> files]
    ELSE IF ans.md5.status # 200
    THEN [raised |-> "none", result |-> None, requests |-> 1,
          opened |-> FALSE, files |-> files]
    ELSE IF port_name \notin DOMAIN src.data
    THEN [raised |-> "KeyError", result |-> None, requests |-> 1,
          opened |-> FALSE, files |-> files]
    ELSE IF ans.art.status # 200
    THEN [raised |-> "none", result |-> None, requests |-> 2,
          opened |-> FALSE, files |-> files]
    ELSE Only({
      IF st.raised # "none"
      THEN [raised |-> st.raised, result |-> None, requests |-> 2,
            opened |-> TRUE, files |-> DictSet(files, port_name, st.written)]
      ELSE IF HexDigest(st.md5) # Strip(ans.md5.body)
      THEN [raised |-> "none", result |-> None, requests |-> 2,
            opened |-> TRUE,
            files |-> Unlink(DictSet(files, port_name, st.written), port_name)]
      ELSE [raised |-> "none", result |-> <<port_name>>, requests |-> 2,
            opened |-> TRUE, files |-> DictSet(files, port_name, st.written)]
      : st \in {Stream(ans.art.body,
                       IF ans.art.content_length = None
                       THEN src.data[port_name].size
                       ELSE ans.art.content_length[1],
                       Md5Init, <<>>, 0)}})

\* fnmatch.fnmatch(name, pat) for patterns of literal characters, '*' and '?'
RECURSIVE Fnmatch(_, _)
Fnmatch(name, pat) ==
    IF pat = <<>> THEN name = <<>>
    ELSE IF Head(pat) = "*"
    THEN \/ Fnmatch(name, Tail(pat))
         \/ name # <<>> /\ Fnmatch(Tail(name), pat)
    ELSE IF name = <<>> THEN FALSE
    ELSE IF Head(pat) = "?" THEN Fnmatch(Tail(name), Tail(pat))
    ELSE Head(pat) = Head(name) /\ Fnmatch(Tail(name), Tail(pat))

\* repo, port_name of do_install: arg.split('/', 1), or '*' and arg
InstallTarget(arg) ==
    LET hits == {i \in 1..Len(arg) : arg[i] = "/"}
    IN  IF hits = {} THEN [repo |-> <<"*">>, port_name |-> arg]
        ELSE LET first == CHOOSE i \in hits : \A j \in hits : i <= j
             IN  [repo |-> SubSeq(arg, 1, first - 1),
                  port_name |-> SubSeq(arg, first + 1, Len(arg))]

\* the loop of do_install over hm.sources.items(), from the i-th source on:
\* the downloads made, the temporary directory, and the exception that ended
\* the loop (if any)
RECURSIVE InstallFrom(_, _, _, _, _, _)
InstallFrom(reg, i, target, answers, files, downloads) ==
    IF i > Len(reg)
    THEN [raised |-> "none", files |-> files, downloads |-> downloads]
    ELSE IF ~Fnmatch(reg[i].prefix, target.repo)
    THEN InstallFrom(reg, i + 1, target, answers, files, downloads)
    ELSE IF \A j \in DOMAIN reg[i].source.ports :
               reg[i].source.ports[j] # CleanName(target.port_name)
    THEN InstallFrom(reg, i + 1, target, answers, files, downloads)
    ELSE Only({
      Only({
        IF d.raised # "none"
        THEN [raised |-> d.raised, files |-> d.files,
              downloads |-> Append(downloads, entry)]
        ELSE InstallFrom(reg, i + 1, target, answers, d.files,
                         Append(downloads, entry))
        : entry \in {[prefix |-> reg[i].prefix,
                      port_name |-> CleanName(target.port_name),
                      md5 |-> answers[reg[i].prefix].md5,
                      art |-> answers[reg[i].prefix].art,
                      raised |-> d.raised, result |-> d.result,
                      requests |-> d.requests, opened |-> d.opened,
                      file |-> IF CleanName(target.port_name) \in DOMAIN d.files
                               THEN <<d.files[CleanName(target.port_name)]>>
                               ELSE None]}})
      : d \in {Download(reg[i].source, CleanName(target.port_name),
                        answers[reg[i].prefix], files)}})

NotFound == [status |-> 404, body |-> <<>>, content_length |-> None]

\* the artifact answers of a host: the body is the stream, as chunks of bytes
ArtifactAnswers ==
    { NotFound,
      [status |-> 200, body |-> <<<<1, 2>>, <<3>>>>, content_length |-> None],
      [status |-> 200, body |-> <<<<7>>>>, content_length |-> <<1>>] }

\* the .md5 files a host serves: the digest of the two-chunk artifact, bare
\* and with the white space of a text file, and the digest of the other
Md5Answers ==
    { Failed,
      Ok(<<"5">>),
      Ok(<<" ","5","\n">>),
      Ok(<<"8">>) }

Answers == [md5 : Md5Answers, art : ArtifactAnswers]

\* install <arg>: a bare name, names qualified by a prefix or a pattern, a
\* port without its artifact in the release, and a name no source lists
InstallArgs ==
    { nDoom, sPm \o <<"/">> \o nDoom, <<"k","*","/">> \o nDoom,
      sPm \o <<"/">> \o nQuake, <<"X",".","z","i","p">> }

\* HarbourMaster.__init__ in main: the registry is built
LoadSources ==
    /\ ilog.op = "none"
    /\ \E r \in {LoadSourceFiles(SortFiles(cfgdir), <<>>, cfgdir, remote, now)} :
          /\ sources' = r.sources
          /\ cfgdir' = r.cfgdir
          /\ ilog' = [op |-> "load_sources", raised |-> r.raised]
    /\ UNCHANGED <<net, tmp, notInstall>>

\* do_install(hm, [arg])
DoInstall ==
    /\ ilog.op = "load_sources"
    /\ ilog.raised = "none"
    /\ \E arg \in InstallArgs :
       \E r \in {InstallFrom(sources, 1, InstallTarget(arg), net, tmp, <<>>)} :
          /\ tmp' = r.files
          /\ ilog' = [op |-> "do_install", arg |-> arg, raised |-> r.raised,
                      downloads |-> r.downloads]
    /\ UNCHANGED <<cfgdir, net, sources, notInstall>>

\* main returns or an exception ends it: make_temp_directory removes the
\* temporary directory, and the objects of the process are gone
ExitInstall ==
    /\ ilog.op # "none"
    /\ sources' = <<>>
    /\ tmp' = EmptyDict
    /\ ilog' = NoInstall
    /\ UNCHANGED <<cfgdir, net, notInstall>>

InitInstall ==
    /\ IdleSource
    /\ IdleLoad
    /\ IdleMerge
    /\ IdleParse
    /\ cfgdir \in ConfigDirs
    /\ net \in [{sPm, sKl} -> Answers]
    /\ sources = <<>>
    /\ tmp = EmptyDict
    /\ ilog = NoInstall

NextInstall == LoadSources \/ DoInstall \/ ExitInstall

SpecInstall == InitInstall /\ [][NextInstall]_vars

(***************************************************************************)
(* Claims about download() and install (SpecInstall)                       *)
(***************************************************************************)
\* the download() calls of the last do_install
Downloads ==
    IF ilog.op = "do_install" THEN Range(ilog.downloads) ELSE {}

RECURSIVE Flatten(_)
Flatten(chunks) ==
    IF chunks = <<>> THEN <<>> ELSE Head(chunks) \o Flatten(Tail(chunks))

\* the whole artifact was streamed
StreamedWhole(d) ==
    d.raised = "none" /\ d.md5.status = 200 /\ d.art.status = 200

DigestMatches(d) ==
    HexDigest(Md5Update(Md5Init, Flatten(d.art.body))) = Strip(d.md5.body)

\* C4: a download that streamed the whole artifact returns None and leaves
\* no file when the digest differs from the checksum in the .md5 file, and
\* returns the path of a temporary file of as many bytes as were received
\* when it matches; a failed .md5 fetch or a non-200 artifact answer returns
\* None without another request and without opening the file.
C4_DownloadIntegrity ==
    \A d \in Downloads :
       /\ (d.raised = "none" /\ d.md5.status # 200)
             => d.result = None /\ ~d.opened /\ d.requests = 1
       /\ (d.raised = "none" /\ d.md5.status = 200 /\ d.art.status # 200)
             => d.result = None /\ ~d.opened /\ d.requests = 2
       /\ (StreamedWhole(d) /\ ~DigestMatches(d))
             => d.result = None /\ d.file = None /\ d.requests = 2
       /\ (StreamedWhole(d) /\ DigestMatches(d))
             => /\ d.result = <<d.port_name>>
                /\ d.file # None
                /\ Len(d.file[1]) = Len(Flatten(d.art.body))
                /\ d.requests = 2

\* one install made a download whose digest matched, of an artifact of more
\* than one chunk, and then one whose digest did not
C4_Witness ==
    /\ ilog.op = "do_install"
    /\ \E i, j \in DOMAIN ilog.downloads :
          /\ i < j
          /\ StreamedWhole(ilog.downloads[i])
          /\ DigestMatches(ilog.downloads[i])
          /\ Len(ilog.downloads[i].art.body) > 1
          /\ StreamedWhole(ilog.downloads[j])
          /\ ~DigestMatches(ilog.downloads[j])

\* the sources of the registry that list the port, in registry order
Listing(port_name) ==
    {i \in DOMAIN sources :
        \E j \in DOMAIN sources[i].source.ports :
            sources[i].source.ports[j] = CleanName(port_name)}

\* C9: an install of an unqualified port name downloads from exactly one
\* source, the first of the registry that lists the port, and starts no
\* download on a later source that lists it too.
C9_UnqualifiedInstallOneSource ==
    (ilog.op = "do_install" /\ ~Contains(ilog.arg, <<"/">>))
    => IF Listing(ilog.arg) = {} THEN ilog.downloads = <<>>
       ELSE /\ Len(ilog.downloads) = 1
            /\ \E i \in Listing(ilog.arg) :
                  /\ \A j \in Listing(ilog.arg) : i <= j
                  /\ ilog.downloads[1].prefix = sources[i].prefix
(***************************************************************************)
(* portmd and the catalog lines that are parsed (SpecParse)                *)
(***************************************************************************)
\* ' '.join(output)
RECURSIVE JoinWords(_)
JoinWords(output) ==
    IF output = <<>> THEN <<>>
    ELSE IF Len(output) = 1 THEN Head(output)
    ELSE Head(output) \o <<" ">> \o JoinWords(Tail(output))

\* f'{key}="{value}"'
Quoted(key, value) == key \o <<"=", "\"">> \o value \o <<"\"">>

\* PortMasterV1.portmd(port_name), info being self._info[port_name]
Portmd(info) ==
    JoinWords(
      << Quoted(IF info[kOpengl] THEN <<"T","i","t","l","e","_","P">>
                ELSE IF info[kPower] THEN <<"T","i","t","l","e","_","F">>
                ELSE <<"T","i","t","l","e">>,
                Replace(info[kTitle], <<" ">>, <<"_">>) \o <<" ", ".">>),
         Quoted(<<"D","e","s","c">>, info[kDesc]),
         Quoted(kPorter, info[kPorter]),
         Quoted(kLocat, info[kFile]) >>
      \o (IF info[kRtr] THEN <<Quoted(kRuntype, kRtr)>> ELSE <<>>))

\* a key="value" token of a catalog line
Tok(key, value) == [key |-> key, value |-> value]

\* the tokens catalog lines are made of: every key of the format, in several
\* spellings, with a percent-encoded and an empty value among the values
Tokens ==
    { Tok(<<"T","i","t","l","e","_","F">>, <<"H","a","l","f","_","L","i","f","e"," ",".">>),
      Tok(<<"t","i","t","l","e","_","p">>, <<"D","o","_","o","m"," ",".">>),
      Tok(<<"T","I","T","L","E">>, <<"Q"," ",".">>),
      Tok(<<"D","e","s","c">>, <<"A"," ","g","a","m","e">>),
      Tok(<<"d","e","s","c">>, <<>>),
      Tok(<<"p","o","r","t","e","r">>, <<"m","e">>),
      Tok(<<"l","o","c","a","t">>, <<"h","a","l","f","l","i","f","e",".","z","i","p">>),
      Tok(<<"L","O","C","A","T">>, <<"a","%","2","0","b",".","z","i","p">>),
      Tok(<<"r","u","n","t","y","p","e">>, <<"x">>),
      Tok(<<"G","e","n","r","e","s">>, <<"r","p","g",",","f","p","s">>) }

MaxTokens == 2

\* Title_F="Half_Life ." Desc="A game" locat="halflife.zip"
HalfLifeTokens ==
    << Tok(<<"T","i","t","l","e","_","F">>, <<"H","a","l","f","_","L","i","f","e"," ",".">>), Tok(<<"D","e","s","c">>, <<"A"," ","g","a","m","e">>), Tok(<<"l","o","c","a","t">>, <<"h","a","l","f","l","i","f","e",".","z","i","p">>) >>

\* lines with every field of a record: without a flag, and with opengl
FullRecordTokens ==
    { << Tok(<<"T","i","t","l","e">>, <<"Q"," ",".">>),
          Tok(<<"D","e","s","c">>, <<"A"," ","g","a","m","e">>),
          Tok(<<"p","o","r","t","e","r">>, <<"m","e">>),
          Tok(<<"l","o","c","a","t">>, <<"q",".","z","i","p">>),
          Tok(<<"r","u","n","t","y","p","e">>, <<"r","t","r">>) >>,
      << Tok(<<"T","i","t","l","e","_","F">>, <<"H","a","l","f","_","L","i","f","e"," ",".">>),
          Tok(<<"D","e","s","c">>, <<"A"," ","g","a","m","e">>),
          Tok(<<"p","o","r","t","e","r">>, <<"m","e">>),
          Tok(<<"l","o","c","a","t">>, <<"h","a","l","f","l","i","f","e",".","z","i","p">>) >> }

TokenLists ==
    (UNION {[1..n -> Tokens] : n \in 1..MaxTokens})
    \cup {HalfLifeTokens} \cup FullRecordTokens

\* the line that holds the tokens, a blank between them
RECURSIVE LineOf(_)
LineOf(tokens) ==
    IF tokens = <<>> THEN <<>>
    ELSE IF Len(tokens) = 1 THEN Quoted(Head(tokens).key, Head(tokens).value)
    ELSE Quoted(Head(tokens).key, Head(tokens).value) \o <<" ">>
         \o LineOf(Tail(tokens))

\* update() parses a line of ports.md: the record is what self._info keeps
ParseLine ==
    /\ made.by # "none"
    /\ parsed = None
    /\ parsed' = <<ParsePortInfo(mdline)>>
    /\ UNCHANGED <<mdline, made, notParse>>

\* do_portsmd prints portmd(port) for the stored record, and the line goes
\* into a catalog again
EmitPortmd ==
    /\ made.by = "catalog"
    /\ parsed # None
    /\ mdline' = Portmd(parsed[1])
    /\ made' = [by |-> "portmd", info |-> parsed[1]]
    /\ parsed' = None
    /\ UNCHANGED notParse

InitParse ==
    /\ IdleSource
    /\ IdleLoad
    /\ IdleMerge
    /\ IdleInstall
    /\ \E tokens \in TokenLists :
          /\ mdline = LineOf(tokens)
          /\ made = [by |-> "catalog", tokens |-> tokens]
    /\ parsed = None

NextParse == ParseLine \/ EmitPortmd

SpecParse == InitParse /\ [][NextParse]_vars
(***************************************************************************)
(* Claims about the text catalog format (SpecParse)                        *)
(***************************************************************************)
\* a title value without its two-character marker, underscores as spaces
DisplayName(value) ==
    Replace(SubSeq(value, 1, Len(value) - 2), <<"_">>, <<" ">>)

\* a value with its %20 decoded: each becomes '.', then '..' becomes '.'
PercentDecoded(value) ==
    IF Contains(value, <<"%","2","0">>)
    THEN Replace(Replace(value, <<"%","2","0">>, <<".">>), <<".",".">>, <<".">>)
    ELSE value

\* what the format says one token does to the record
TokenMeaning(info, tok) ==
    LET key == Lower(tok.key)
    IN  IF key = kTitleF
        THEN [info EXCEPT ![kTitle] = PercentDecoded(DisplayName(tok.value)),
                          ![kOpengl] = TRUE]
        ELSE IF key = kTitleP
        THEN [info EXCEPT ![kTitle] = PercentDecoded(DisplayName(tok.value)),
                          ![kPower] = TRUE]
        ELSE IF key = kTitle
        THEN [info EXCEPT ![kTitle] = PercentDecoded(DisplayName(tok.value))]
        ELSE IF key = kLocat
        THEN [info EXCEPT ![kFile] = PercentDecoded(tok.value)]
        ELSE IF key = kRuntype
        THEN [info EXCEPT ![kRtr] = TRUE]
        ELSE IF key = kGenres
        THEN [info EXCEPT ![kGenres] = Split(PercentDecoded(tok.value), ",")]
        ELSE [info EXCEPT ![key] = PercentDecoded(tok.value)]

\* the record the format gives a line of tokens: the defaults, then each
\* token in turn
RECURSIVE LineMeaning(_, _)
LineMeaning(info, tokens) ==
    IF tokens = <<>> THEN info
    ELSE LineMeaning(TokenMeaning(info, Head(tokens)), Tail(tokens))

\* a line made of tokens has been parsed
ParsedCatalogLine == made.by = "catalog" /\ parsed # None

\* C11: the record parsed from a line of key="value" tokens is the default
\* record changed by each token in turn: keys count whatever their case,
\* title_f and title_p set title and opengl or power, a title loses its last
\* two characters and has its underscores turned into spaces, locat goes to
\* file, runtype sets rtr true, genres is split on ','; the line
\* Title_F="Half_Life ." Desc="A game" locat="halflife.zip" gives title
\* "Half Life", opengl true, desc "A game", file "halflife.zip".
C11_TextRecordParsing ==
    ParsedCatalogLine
    => /\ DOMAIN parsed[1] = DOMAIN InfoDefaults
       /\ \A key \in DOMAIN InfoDefaults :
             parsed[1][key] = LineMeaning(InfoDefaults, made.tokens)[key]
\* the line portmd emitted for a stored record has been parsed
ParsedPortmdLine == made.by = "portmd" /\ parsed # None

\* C13: parsing the line that portmd emits for a stored record gives a
\* record with the same title, desc, porter, file and rtr and the same opengl
\* and power flags as the stored record, when at most one of the two flags
\* is set in it.
C13_PortmdRoundTrip ==
    (ParsedPortmdLine /\ ~(made.info[kOpengl] /\ made.info[kPower]))
    => \A key \in {kTitle, kDesc, kPorter, kFile, kRtr, kOpengl, kPower} :
          parsed[1][key] = made.info[key]
====
